---- MODULE Spec2Model ----
(***************************************************************************)
(* Model of the StepperMotor class of rpi5-stepper-motor-controller        *)
(* (src/src/index.ts) together with the GPIO line provider it drives.      *)
(*                                                                         *)
(* JavaScript runs one callback at a time, so every action below is one    *)
(* run-to-completion piece of the program: a constructor call, the         *)
(* synchronous part of move(), one timer callback of a move, cleanup(),    *)
(* delete().  async.eachSeries / waterfall / each call their iteratees     *)
(* synchronously and do not catch what they throw, and the iteratees pass  *)
(* no error to their callbacks: a failing setValue is an exception that    *)
(* leaves the current callback.                                            *)
(***************************************************************************)
EXTENDS Integers, Sequences, FiniteSets

\* ---------------------------------------------------------------- bounds
MaxCalls == 3      \* constructor, move, cleanup and delete calls in one behaviour
MaxMoves == 2      \* move() calls made in one behaviour, over all drivers
MaxSteps == 3      \* advances requested in one behaviour, over all its moves
MaxFaults == 1     \* line writes the provider fails in one behaviour

\* ------------------------------------------------------------- constants
Drivers == {"a", "b"}                    \* StepperMotor instances
PinNums == {5, 17, 18, 22, 27}           \* lines of the GPIO chip
None == "none"
Undefined == <<>>                        \* config.stepSequence not given

DefaultPins == <<17, 18, 27, 22>>
DefaultStepSequence ==
  << <<1, 0, 0, 1>>,
     <<1, 0, 0, 0>>,
     <<1, 1, 0, 0>>,
     <<0, 1, 0, 0>>,
     <<0, 1, 1, 0>>,
     <<0, 0, 1, 0>>,
     <<0, 0, 1, 1>>,
     <<0, 0, 0, 1>> >>
DefaultInitialStepCounter == 0

\* inputs the callers of the model pass
CustomSequence == << <<1, 0>>, <<0, 1>> >>
PinLists == {DefaultPins, <<5, 17>>, <<17, 5>>}
SequenceArgs == {Undefined, CustomSequence}
\* config.initialStepCounter: the first and the last row of the sequence
InitialCounters(s) == {DefaultInitialStepCounter, Len(s) - 1}
\* instances are named in the order of their construction
CreatedBefore(e, d) == e = "a" /\ d = "b"
StepCounts == -1 .. MaxSteps
Directions == {FALSE, TRUE}              \* false: forward, true: backward

VARIABLES
  status,            \* per driver: "none" (not constructed), "live", "failed" (constructor threw)
  ctorError,         \* per driver: what its constructor threw, or None
  pins,              \* this.pins
  gpioLines,         \* this.gpioLines: per position "unrequested" | "requested" | "released"
  stepSequence,      \* this.stepSequence
  motorStepCounter,  \* this.motorStepCounter
  moves,             \* per driver: the move() calls made on it, in call order
  claimedBy,         \* provider: which driver's line handle holds each pin
  value,             \* provider: output value of each pin
  faults,            \* line writes failed by the provider so far
  calls,             \* constructor, move, cleanup and delete calls made so far
  releaseCalls       \* per driver: release() calls delete() has made on each of its lines

vars == <<status, ctorError, pins, gpioLines, stepSequence, motorStepCounter,
          moves, claimedBy, value, faults, calls, releaseCalls>>

\* ---------------------------------------------------------------- helpers
Width(d) == Len(gpioLines[d])
SeqLen(d) == Len(stepSequence[d])
RowWidth(s) == Len(s[1])

\* position (1-based) of pin p in driver d's pin list, 0 when absent
PosOf(d, p) ==
  IF \E j \in 1 .. Len(pins[d]) : pins[d][j] = p
  THEN CHOOSE j \in 1 .. Len(pins[d]) : pins[d][j] = p
  ELSE 0

Min(S) == CHOOSE x \in S : \A y \in S : x <= y

TotalMoves ==
  LET RECURSIVE Sum(_)
      Sum(S) == IF S = {} THEN 0
                ELSE LET d == CHOOSE x \in S : TRUE
                     IN Len(moves[d]) + Sum(S \ {d})
  IN Sum(Drivers)

\* advances requested by the moves made so far
TotalSteps ==
  LET RECURSIVE Sum(_, _)
      Sum(d, m) == IF m = 0 THEN 0
                   ELSE (IF moves[d][m].stepCount < 0 THEN 0
                         ELSE moves[d][m].stepCount) + Sum(d, m - 1)
  IN Sum("a", Len(moves["a"])) + Sum("b", Len(moves["b"]))

Init ==
  /\ status = [d \in Drivers |-> "none"]
  /\ ctorError = [d \in Drivers |-> None]
  /\ pins = [d \in Drivers |-> <<>>]
  /\ gpioLines = [d \in Drivers |-> <<>>]
  /\ stepSequence = [d \in Drivers |-> <<>>]
  /\ motorStepCounter = [d \in Drivers |-> 0]
  /\ moves = [d \in Drivers |-> <<>>]
  /\ claimedBy = [p \in PinNums |-> None]
  /\ value = [p \in PinNums |-> 0]
  /\ faults = 0
  /\ calls = 0
  /\ releaseCalls = [d \in Drivers |-> 0]

\* ------------------------------------------------- GPIO line provider
\* Line.requestOutputMode(0, consumer): fails with the provider's
\* "resource busy" error when the pin is already claimed.
IsBusy(p) == claimedBy[p] # None

\* Line.setValue on handle j of driver d throws when the handle holds no
\* requested line, or when the provider fails this write (f = j).
\* FirstBad is the first position whose write throws, Width(d) + 1 if none.
NoFault(d) == Width(d) + 1
FirstBad(d, f) ==
  Min({j \in 1 .. Width(d) : gpioLines[d][j] # "requested" \/ j = f}
      \cup {Width(d) + 1})

\* provider values after driver d wrote vals[j] to its lines 1 .. n
ValuesAfter(d, vals, n) ==
  [p \in PinNums |->
     IF PosOf(d, p) \in 1 .. n THEN vals[PosOf(d, p)] ELSE value[p]]

WriteLog(vals, n) == [j \in 1 .. n |-> <<j, vals[j]>>]

\* --------------------------------------------------------- constructor
\* config.stepSequence || default table
ResolveSequence(s) == IF s = Undefined THEN DefaultStepSequence ELSE s

\* setupPins: request the lines in list order; the first busy pin throws
\* and ends the loop. Returns the position that threw, Len(pl) + 1 if none.
SetupPinsStop(pl) ==
  Min({j \in 1 .. Len(pl) : IsBusy(pl[j])} \cup {Len(pl) + 1})

Construct(d, pl, sq, init) ==
  /\ status[d] = "none"
  /\ calls < MaxCalls
  /\ \A e \in Drivers : CreatedBefore(e, d) => status[e] # "none"
  /\ Len(pl) <= RowWidth(ResolveSequence(sq))
  /\ init \in InitialCounters(ResolveSequence(sq))
  /\ LET stop == SetupPinsStop(pl)
         ok == stop = Len(pl) + 1
     IN /\ pins' = [pins EXCEPT ![d] = pl]
        /\ stepSequence' = [stepSequence EXCEPT ![d] = ResolveSequence(sq)]
        /\ motorStepCounter' = [motorStepCounter EXCEPT ![d] = init]
        /\ gpioLines' = [gpioLines EXCEPT ![d] =
             [j \in 1 .. Len(pl) |->
                IF j < stop THEN "requested" ELSE "unrequested"]]
        /\ claimedBy' = [p \in PinNums |->
             IF \E j \in 1 .. stop - 1 : pl[j] = p THEN d ELSE claimedBy[p]]
        /\ value' = [p \in PinNums |->
             IF \E j \in 1 .. stop - 1 : pl[j] = p THEN 0 ELSE value[p]]
        /\ status' = [status EXCEPT ![d] = IF ok THEN "live" ELSE "failed"]
        /\ ctorError' = [ctorError EXCEPT ![d] =
             IF ok THEN None ELSE "ResourceBusy"]
  /\ calls' = calls + 1
  /\ UNCHANGED <<moves, faults, releaseCalls>>

\* -------------------------------------------------------------- cleanup
ZeroRow(d) == [j \in 1 .. Width(d) |-> 0]

\* the loop of cleanup ending one line early
CleanupWrittenShort(d) ==
  IF FirstBad(d, NoFault(d)) >= 2 THEN FirstBad(d, NoFault(d)) - 2 ELSE 0

\* cleanup(): setValue(0) on every line in order; a throwing setValue ends
\* it. Returns the number of lines written.
CleanupWritten(d) == FirstBad(d, NoFault(d)) - 1
CleanupThrows(d) == CleanupWritten(d) < Width(d)

Cleanup(d) ==
  /\ status[d] = "live"
  /\ calls < MaxCalls
  /\ calls' = calls + 1
  /\ value' = ValuesAfter(d, ZeroRow(d), CleanupWritten(d))
  /\ UNCHANGED <<status, ctorError, pins, gpioLines, stepSequence,
                 motorStepCounter, moves, claimedBy, faults, releaseCalls>>

\* ----------------------------------------------------------------- move
\* the array one element too long
ArrayFromLengthOneMore(stepCount) == IF stepCount < 0 THEN 0 ELSE stepCount + 1

\* Array.from({length: stepCount}): a negative length gives the empty array
ArrayFromLength(stepCount) == IF stepCount < 0 THEN 0 ELSE stepCount

\* the index update of one advance
NextCounter(c, direction) ==
  IF direction THEN (c - 1 + 8) % 8 ELSE (c + 1) % 8

\* an exception leaving the Promise executor rejects the promise; one
\* leaving a timer callback is uncaught and the promise stays pending
Thrown(ctx) == IF ctx = "sync" THEN "rejected" ELSE "uncaught"

\* busy records whether an earlier move of the driver was still waiting on
\* its timer when this one was called (history; the code keeps no such flag)
NewMove(d, stepCount, direction) ==
  [stepCount |-> stepCount, direction |-> direction,
   start |-> motorStepCounter[d], done |-> 0, pc |-> "timer",
   log |-> <<>>, failedAt |-> 0, cleaned |-> FALSE, err |-> None,
   busy |-> \E m \in 1 .. Len(moves[d]) : moves[d][m].pc = "timer"]

\* the final callback putting the index back to its initial value
FinishResetsIndex(d, rec, ctx) ==
  [rec |-> [rec EXCEPT
              !.pc = IF CleanupThrows(d) THEN Thrown(ctx) ELSE "resolved",
              !.err = IF CleanupThrows(d) THEN "LineWriteError" ELSE None,
              !.cleaned = TRUE,
              !.log = rec.log \o WriteLog(ZeroRow(d), CleanupWritten(d))],
   value |-> ValuesAfter(d, ZeroRow(d), CleanupWritten(d)),
   counter |-> DefaultInitialStepCounter]

\* eachSeries final callback: cleanup(), then resolve("Success")
\* (err is never passed by the iteratees)
Finish(d, rec, ctx) ==
  [rec |-> [rec EXCEPT
              !.pc = IF CleanupThrows(d) THEN Thrown(ctx) ELSE "resolved",
              !.err = IF CleanupThrows(d) THEN "LineWriteError" ELSE None,
              !.cleaned = TRUE,
              !.log = rec.log \o WriteLog(ZeroRow(d), CleanupWritten(d))],
   value |-> ValuesAfter(d, ZeroRow(d), CleanupWritten(d)),
   counter |-> motorStepCounter[d]]

\* the iteration with its two waterfall tasks swapped: index first
AdvanceIndexFirst(d, rec, ctx, f) ==
  LET c == NextCounter(motorStepCounter[d], rec.direction)
      hasRow == c + 1 \in 1 .. SeqLen(d)
      row == IF hasRow THEN stepSequence[d][c + 1] ELSE ZeroRow(d)
      bad == IF hasRow THEN FirstBad(d, f) ELSE 1
      threw == bad <= Width(d)
  IN [rec |-> [rec EXCEPT
                 !.pc = IF threw THEN Thrown(ctx) ELSE "timer",
                 !.err = IF ~threw THEN None
                         ELSE IF hasRow THEN "LineWriteError" ELSE "TypeError",
                 !.failedAt = IF threw THEN rec.done + 1 ELSE 0,
                 !.log = rec.log \o WriteLog(row, bad - 1)],
      value |-> ValuesAfter(d, row, bad - 1),
      counter |-> c]

\* the iteration updating the index from a copy the move took when it was
\* called, so that the updates of an overlapping move are lost
AdvanceLostUpdate(d, rec, ctx, f) ==
  LET c == motorStepCounter[d]
      own == IF rec.direction THEN (rec.start + 8 * (rec.done + 1) - rec.done) % 8
             ELSE (rec.start + rec.done) % 8
      hasRow == c + 1 \in 1 .. SeqLen(d)
      row == IF hasRow THEN stepSequence[d][c + 1] ELSE ZeroRow(d)
      bad == IF hasRow THEN FirstBad(d, f) ELSE 1
      threw == bad <= Width(d)
  IN [rec |-> [rec EXCEPT
                 !.pc = IF threw THEN Thrown(ctx) ELSE "timer",
                 !.err = IF ~threw THEN None
                         ELSE IF hasRow THEN "LineWriteError" ELSE "TypeError",
                 !.failedAt = IF threw THEN rec.done + 1 ELSE 0,
                 !.log = rec.log \o WriteLog(row, bad - 1)],
      value |-> ValuesAfter(d, row, bad - 1),
      counter |-> IF threw THEN c ELSE NextCounter(own, rec.direction)]

\* one eachSeries iteration: write the row at motorStepCounter to every
\* line, update motorStepCounter, start the timer
Advance(d, rec, ctx, f) ==
  LET c == motorStepCounter[d]
      hasRow == c + 1 \in 1 .. SeqLen(d)
      row == IF hasRow THEN stepSequence[d][c + 1] ELSE ZeroRow(d)
      bad == IF hasRow THEN FirstBad(d, f) ELSE 1
      threw == bad <= Width(d)
  IN [rec |-> [rec EXCEPT
                 !.pc = IF threw THEN Thrown(ctx) ELSE "timer",
                 !.err = IF ~threw THEN None
                         ELSE IF hasRow THEN "LineWriteError" ELSE "TypeError",
                 !.failedAt = IF threw THEN rec.done + 1 ELSE 0,
                 !.log = rec.log \o WriteLog(row, bad - 1)],
      value |-> ValuesAfter(d, row, bad - 1),
      counter |-> IF threw THEN c ELSE NextCounter(c, rec.direction)]

\* eachSeries: the next iteration, or the final callback after the last
Proceed(d, rec, ctx, f) ==
  IF rec.done = ArrayFromLength(rec.stepCount)
  THEN Finish(d, rec, ctx)
  ELSE Advance(d, rec, ctx, f)

\* the provider fails the write at position f of this step: only a write
\* that an advance really issues can fail
FaultOK(d, rec, f) ==
  \/ f = NoFault(d)
  \/ /\ f \in 1 .. Width(d)
     /\ faults < MaxFaults
     /\ rec.done < ArrayFromLength(rec.stepCount)
     /\ motorStepCounter[d] + 1 \in 1 .. SeqLen(d)
     /\ FirstBad(d, f) = f
     /\ gpioLines[d][f] = "requested"

\* the lines released when a move completes
ApplyReleasing(d, m, out, f) ==
  /\ calls' = IF m > Len(moves[d]) THEN calls + 1 ELSE calls
  /\ moves' = [moves EXCEPT ![d] =
       IF m > Len(moves[d]) THEN Append(moves[d], out.rec)
       ELSE [moves[d] EXCEPT ![m] = out.rec]]
  /\ value' = out.value
  /\ motorStepCounter' = [motorStepCounter EXCEPT ![d] = out.counter]
  /\ faults' = IF f = NoFault(d) THEN faults ELSE faults + 1
  /\ gpioLines' = IF out.rec.cleaned
                  THEN [gpioLines EXCEPT ![d] = [j \in 1 .. Width(d) |-> "released"]]
                  ELSE gpioLines
  /\ claimedBy' = IF out.rec.cleaned
                  THEN [p \in PinNums |-> IF claimedBy[p] = d THEN None ELSE claimedBy[p]]
                  ELSE claimedBy
  /\ UNCHANGED <<status, ctorError, pins, stepSequence, releaseCalls>>

Apply(d, m, out, f) ==
  /\ calls' = IF m > Len(moves[d]) THEN calls + 1 ELSE calls
  /\ moves' = [moves EXCEPT ![d] =
       IF m > Len(moves[d]) THEN Append(moves[d], out.rec)
       ELSE [moves[d] EXCEPT ![m] = out.rec]]
  /\ value' = out.value
  /\ motorStepCounter' = [motorStepCounter EXCEPT ![d] = out.counter]
  /\ faults' = IF f = NoFault(d) THEN faults ELSE faults + 1
  /\ UNCHANGED <<status, ctorError, pins, gpioLines, stepSequence, claimedBy,
                 releaseCalls>>

\* move(config): the Promise executor runs eachSeries up to the first timer
Move(d, stepCount, direction, f) ==
  /\ status[d] = "live"
  /\ calls < MaxCalls
  /\ TotalMoves < MaxMoves
  /\ TotalSteps + ArrayFromLength(stepCount) <= MaxSteps
  /\ FaultOK(d, NewMove(d, stepCount, direction), f)
  /\ Apply(d, Len(moves[d]) + 1,
           Proceed(d, NewMove(d, stepCount, direction), "sync", f), f)

\* the timer of move m fires: its advance is complete, eachSeries goes on
TimerFire(d, m, f) ==
  /\ m \in 1 .. Len(moves[d])
  /\ moves[d][m].pc = "timer"
  /\ LET rec == [moves[d][m] EXCEPT !.done = @ + 1]
     IN /\ FaultOK(d, rec, f)
        /\ Apply(d, m, Proceed(d, rec, "timer", f), f)

\* --------------------------------------------------------------- delete
\* only the first line released
ReleasedClaimsFirstOnly(d) ==
  [p \in PinNums |->
     IF PosOf(d, p) = 1 /\ gpioLines[d][1] = "requested"
     THEN None ELSE claimedBy[p]]

\* Line.release(): gives up the claim of a requested line
ReleasedClaims(d) ==
  [p \in PinNums |->
     IF PosOf(d, p) # 0 /\ gpioLines[d][PosOf(d, p)] = "requested"
     THEN None ELSE claimedBy[p]]

\* delete() that de-energizes the lines before releasing them
DeleteWithCleanup(d) ==
  /\ status[d] = "live"
  /\ calls < MaxCalls
  /\ calls' = calls + 1
  /\ value' = ValuesAfter(d, ZeroRow(d), CleanupWritten(d))
  /\ claimedBy' = ReleasedClaims(d)
  /\ gpioLines' = [gpioLines EXCEPT ![d] = [j \in 1 .. Width(d) |-> "released"]]
  /\ releaseCalls' = [releaseCalls EXCEPT ![d] = @ + 1]
  /\ UNCHANGED <<status, ctorError, pins, stepSequence, motorStepCounter,
                 moves, faults>>

Delete(d) ==
  /\ status[d] = "live"
  /\ calls < MaxCalls
  /\ calls' = calls + 1
  /\ claimedBy' = ReleasedClaims(d)
  /\ gpioLines' = [gpioLines EXCEPT ![d] = [j \in 1 .. Width(d) |-> "released"]]
  /\ releaseCalls' = [releaseCalls EXCEPT ![d] = @ + 1]
  /\ UNCHANGED <<status, ctorError, pins, stepSequence, motorStepCounter,
                 moves, value, faults>>

\* ------------------------------------------------- move() without config
\* the defaults the README documents for direction
ReadmeDefaultDirection == TRUE

\* const { stepCount = 4096, direction = false, stepSleep = 2 } = config
DefaultStepCount == 4096
DefaultDirection == FALSE
NoConfig == [k \in {} |-> 0]
StepCountOf(config) ==
  IF "stepCount" \in DOMAIN config THEN config.stepCount ELSE DefaultStepCount
DirectionOf(config) ==
  IF "direction" \in DOMAIN config THEN config.direction ELSE DefaultDirection

\* move(): the one move of a behaviour of SpecDefaults, no write failing
MoveNoArgs(d) ==
  /\ status[d] = "live"
  /\ calls < MaxCalls
  /\ TotalMoves = 0
  /\ Apply(d, 1,
           Proceed(d, NewMove(d, StepCountOf(NoConfig), DirectionOf(NoConfig)),
                   "sync", NoFault(d)),
           NoFault(d))

\* ------------------------------------------------------- specification
Next ==
  \/ \E d \in Drivers, pl \in PinLists, sq \in SequenceArgs, init \in 0 .. 7 :
       Construct(d, pl, sq, init)
  \/ \E d \in Drivers, n \in StepCounts, dir \in Directions, f \in 1 .. 5 :
       Move(d, n, dir, f)
  \/ \E d \in Drivers, m \in 1 .. MaxMoves, f \in 1 .. 5 : TimerFire(d, m, f)
  \/ \E d \in Drivers : Cleanup(d)
  \/ \E d \in Drivers : Delete(d)

Spec == Init /\ [][Next]_vars

\* one driver, constructed in any way, on which move() is called once
NextDefaults ==
  \/ \E pl \in PinLists, sq \in SequenceArgs, init \in 0 .. 7 :
       Construct("a", pl, sq, init)
  \/ MoveNoArgs("a")
  \/ TimerFire("a", 1, NoFault("a"))

SpecDefaults == Init /\ [][NextDefaults]_vars

\* ---------------------------------------------------------------- claims
PinSet(d) == {pins[d][j] : j \in 1 .. Len(pins[d])}
MoveIds(d) == 1 .. Len(moves[d])
InFlight(d) == {m \in MoveIds(d) : moves[d][m].pc = "timer"}
\* d is constructed and holds every one of its lines
Bound(d) ==
  status[d] = "live" /\ \A j \in 1 .. Width(d) : gpioLines[d][j] = "requested"
\* this step is a call of move() on d
MoveCalled(d) == Len(moves'[d]) = Len(moves[d]) + 1
LastMove(d) == moves[d][Len(moves[d])]

\* C1: whenever no move is executing advances on a driver that holds its
\* lines (after construction, after a completed move, after a move aborted
\* by a failed line write), every bound line's value is 0.
C1_DeEnergizedWhenIdle ==
  \A d \in Drivers :
    (Bound(d) /\ InFlight(d) = {}) =>
      \A j \in 1 .. Width(d) : value[pins[d][j]] = 0

\* C2: a move whose k-th advance had a line write fail has run cleanup and
\* its promise is rejected with that failure (never resolved, never pending).
C2_FailureCleansUpAndRejects ==
  \A d \in Drivers : \A m \in MoveIds(d) :
    (moves[d][m].failedAt # 0 /\ moves[d][m].err = "LineWriteError") =>
      /\ moves[d][m].pc = "rejected"
      /\ moves[d][m].cleaned

\* C3: a successful move of N >= 0 steps from index i (the only move made
\* on its driver) leaves currentIndex at
\* (i + N) mod L when forward and (i - N) mod L when backward, L being the
\* length of the driver's step sequence.
C3_IndexAfterMove ==
  \A d \in Drivers :
    (Len(moves[d]) = 1 /\ moves[d][1].pc = "resolved"
       /\ moves[d][1].stepCount >= 0) =>
      motorStepCounter[d] =
        IF moves[d][1].direction
        THEN (moves[d][1].start - moves[d][1].stepCount) % SeqLen(d)
        ELSE (moves[d][1].start + moves[d][1].stepCount) % SeqLen(d)

\* C4: a move called while another move of the same driver is outstanding
\* is rejected, writes no line and leaves currentIndex unchanged.
C4_OverlappingMoveRejected ==
  [][\A d \in Drivers :
       (MoveCalled(d) /\ InFlight(d) # {}) =>
         /\ LastMove(d)'.pc = "rejected"
         /\ value' = value
         /\ motorStepCounter'[d] = motorStepCounter[d]]_vars

\* C5: currentIndex is always a row index of the driver's step sequence.
C5_IndexInRange ==
  \A d \in Drivers :
    status[d] = "live" => motorStepCounter[d] \in 0 .. SeqLen(d) - 1

\* C6: a construction that found one of its pins busy failed with the
\* provider's resource-busy error and holds no claim on any pin.
C6_FailedConstructionHoldsNothing ==
  \A d \in Drivers :
    status[d] = "failed" =>
      /\ ctorError[d] = "ResourceBusy"
      /\ \A p \in PinNums : claimedBy[p] # d

\* C7: a move with a negative stepCount is rejected as a configuration
\* error; it is not run as a zero-step move and does not resolve.
C7_NegativeStepCountRejected ==
  \A d \in Drivers : \A m \in MoveIds(d) :
    moves[d][m].stepCount < 0 =>
      /\ moves[d][m].pc = "rejected"
      /\ moves[d][m].err = "InvalidConfigurationError"

\* C8: move with stepCount = 0 on a driver holding its lines resolves at
\* once, leaves currentIndex unchanged and writes nothing but cleanup's one
\* 0 to each bound line.
C8_ZeroStepMove ==
  [][\A d \in Drivers :
       (MoveCalled(d) /\ LastMove(d)'.stepCount = 0 /\ Bound(d)) =>
         /\ LastMove(d)'.pc = "resolved"
         /\ motorStepCounter'[d] = motorStepCounter[d]
         /\ LastMove(d)'.log = [j \in 1 .. Width(d) |-> <<j, 0>>]
         /\ \A j \in 1 .. Width(d) : value'[pins[d][j]] = 0]_vars

\* a zero-step move resolved on a driver whose index is not 0
C8_Witness ==
  \E d \in Drivers : \E m \in MoveIds(d) :
    /\ moves[d][m].stepCount = 0
    /\ moves[d][m].pc = "resolved"
    /\ moves[d][m].start # 0
    /\ motorStepCounter[d] = moves[d][m].start
    /\ Len(moves[d][m].log) = Width(d)

\* the writes C9 expects of a move: row (i + k - 1) mod L forward,
\* (i - k + 1) mod L backward for k = 1 .. n, then one 0 per line
ExpectedRow(d, rec, k) ==
  IF rec.direction THEN (rec.start - (k - 1)) % SeqLen(d)
  ELSE (rec.start + (k - 1)) % SeqLen(d)
ExpectedLog(d, rec, n) ==
  [e \in 1 .. (n + 1) * Width(d) |->
     LET k == ((e - 1) \div Width(d)) + 1
         j == ((e - 1) % Width(d)) + 1
     IN IF k <= n THEN <<j, stepSequence[d][ExpectedRow(d, rec, k) + 1][j]>>
        ELSE <<j, 0>>]

\* C9: a move of N steps that met no line-write failure (the only move made
\* on its driver) has settled as resolved, having written to each line the N rows that follow its start
\* index and then one 0.
C9_ExactStepWrites ==
  \A d \in Drivers : \A m \in MoveIds(d) :
    (Len(moves[d]) = 1 /\ moves[d][m].stepCount >= 0
       /\ moves[d][m].pc # "timer" /\ moves[d][m].err # "LineWriteError") =>
      /\ moves[d][m].pc = "resolved"
      /\ moves[d][m].log = ExpectedLog(d, moves[d][m], moves[d][m].stepCount)

\* C10: while a constructed driver d holds its lines, constructing another
\* driver on one of d's pins fails with the provider's resource-busy error
\* and d keeps its claims; a delete() leaves every pin of the driver
\* unclaimed, and a construction that finds all its pins unclaimed succeeds.
C10_ExclusiveUntilDelete ==
  [][\A d \in Drivers :
       /\ \A e \in Drivers \ {d} :
            (Bound(d) /\ status[e] = "none" /\ status'[e] # "none"
               /\ PinSet(e)' \cap PinSet(d) # {}) =>
              /\ status'[e] = "failed"
              /\ ctorError'[e] = "ResourceBusy"
              /\ \A p \in PinSet(d) : claimedBy'[p] = d
       /\ (status[d] = "live" /\ gpioLines'[d] # gpioLines[d]) =>
            \A p \in PinSet(d) : claimedBy'[p] = None
       /\ (status[d] = "none" /\ status'[d] # "none"
             /\ \A p \in PinSet(d)' : claimedBy[p] = None) =>
            /\ status'[d] = "live"
            /\ \A p \in PinSet(d)' : claimedBy'[p] = d]_vars

\* driver a has released its lines and driver b now holds pins a had held
C10_Witness ==
  /\ status["a"] = "live"
  /\ \A j \in 1 .. Width("a") : gpioLines["a"][j] = "released"
  /\ Bound("b")
  /\ PinSet("a") \cap PinSet("b") # {}
  /\ \A p \in PinSet("b") : claimedBy[p] = "b"

\* C11: every move settles: a move whose promise is neither resolved nor
\* rejected still has a timer pending, so that it settles once its timers
\* have fired.
C11_MoveSettles ==
  \A d \in Drivers : \A m \in MoveIds(d) :
    moves[d][m].pc \in {"timer", "resolved", "rejected"}

\* C12: no constructed driver has a step-sequence row whose length differs
\* from the number of its bound lines.
C12_RowWidthMatchesPins ==
  \A d \in Drivers :
    status[d] = "live" =>
      \A i \in 1 .. SeqLen(d) : Len(stepSequence[d][i]) = Width(d)

\* C13: cleanup() on a driver holding its lines sets every bound line to 0,
\* a second cleanup() right after it changes nothing, and it changes
\* neither currentIndex nor any claim: the lines stay requested.
C13_CleanupZeroesOnly ==
  [][\A d \in Drivers :
       (Cleanup(d) /\ Bound(d)) =>
         /\ \A j \in 1 .. Width(d) : value'[pins[d][j]] = 0
         /\ \A p \in PinNums \ PinSet(d) : value'[p] = value[p]
         /\ (ValuesAfter(d, ZeroRow(d), CleanupWritten(d)))' = value'
         /\ motorStepCounter' = motorStepCounter
         /\ claimedBy' = claimedBy
         /\ moves' = moves
         /\ Bound(d)']_vars

\* cleanup() was called between two advances of the only move of driver a:
\* the advance drove a line to 1, the move still waits, every line is 0
C13_Witness ==
  /\ Bound("a")
  /\ Len(moves["a"]) = 1
  /\ moves["a"][1].pc = "timer"
  /\ Len(moves["a"][1].log) = Width("a")
  /\ \E j \in 1 .. Width("a") : moves["a"][1].log[j][2] = 1
  /\ \A j \in 1 .. Width("a") : value[pins["a"][j]] = 0

\* C14: the lines of a driver are released only by delete(), and each line
\* is released exactly once: no step but a delete() takes a claim from a
\* driver, and delete() calls release() at most once on a line.
C14_ReleasedOnceByDelete ==
  [][\A d \in Drivers :
       /\ (\E p \in PinNums : claimedBy[p] = d /\ claimedBy'[p] # d) =>
            releaseCalls'[d] = releaseCalls[d] + 1
       /\ releaseCalls'[d] <= 1]_vars

\* C15: delete() does not run cleanup: it writes no line value and leaves
\* currentIndex and the moves alone, so a line holding 1 is released at 1.
C15_DeleteWritesNothing ==
  [][\A d \in Drivers :
       releaseCalls'[d] # releaseCalls[d] =>
         /\ value' = value
         /\ motorStepCounter' = motorStepCounter
         /\ moves' = moves
         /\ \A j \in 1 .. Width(d) : gpioLines'[d][j] = "released"]_vars

\* a line of a deleted driver is unclaimed and still holds 1
C15_Witness ==
  \E d \in Drivers : \E j \in 1 .. Width(d) :
    /\ releaseCalls[d] = 1
    /\ gpioLines[d][j] = "released"
    /\ claimedBy[pins[d][j]] = None
    /\ value[pins[d][j]] = 1

C17_AdvancesInOrder ==
  [][\A d \in Drivers : \A m \in 1 .. Len(moves'[d]) :
       LET new == m > Len(moves[d])
           oldLog == IF new THEN <<>> ELSE moves[d][m].log
           after == moves'[d][m]
           n == IF after.stepCount < 0 THEN 0 ELSE after.stepCount
       IN (new \/ after # moves[d][m]) =>
            /\ ~new => /\ moves[d][m].pc = "timer"
                       /\ after.done = moves[d][m].done + 1
            /\ new => after.done = 0
            /\ after.pc = "timer" =>
                 /\ after.done < n
                 /\ Len(oldLog) = after.done * Width(d)
                 /\ after.log = oldLog \o
                      [j \in 1 .. Width(d) |->
                         <<j, stepSequence[d][motorStepCounter[d] + 1][j]>>]
                 /\ motorStepCounter'[d] =
                      IF after.direction
                      THEN (motorStepCounter[d] + 7) % 8
                      ELSE (motorStepCounter[d] + 1) % 8
            /\ after.cleaned =>
                 /\ after.done = n
                 /\ Len(oldLog) = n * Width(d)
                 /\ \A j \in Len(oldLog) + 1 .. Len(after.log) :
                      after.log[j][2] = 0]_vars

\* a move of at least two advances has resolved
C17_Witness ==
  \E d \in Drivers : \E m \in MoveIds(d) :
    /\ moves[d][m].stepCount >= 2
    /\ moves[d][m].pc = "resolved"
    /\ Len(moves[d][m].log) = (moves[d][m].stepCount + 1) * Width(d)

\* currentIndex after n completed advances from index c
RECURSIVE IndexAfter(_, _, _)
IndexAfter(c, direction, n) ==
  IF n = 0 THEN c ELSE IndexAfter(NextCounter(c, direction), direction, n - 1)

\* C18: when a line write fails in the k-th advance of a move, the failed
\* advance leaves currentIndex unchanged, at the value reached by k - 1
\* completed advances from the move's starting index.
C18_IndexAtFailure ==
  [][\A d \in Drivers : \A m \in 1 .. Len(moves'[d]) :
       LET new == m > Len(moves[d])
           after == moves'[d][m]
       IN (after.failedAt # 0 /\ after.err = "LineWriteError"
             /\ (new \/ moves[d][m].failedAt = 0)) =>
            /\ motorStepCounter'[d] = motorStepCounter[d]
            /\ motorStepCounter'[d] =
                 IndexAfter(after.start, after.direction, after.failedAt - 1)]_vars

\* the step writes of one move of n advances from index c, in order
RECURSIVE RowsFrom(_, _, _, _)
RowsFrom(d, c, direction, n) ==
  IF n = 0 THEN <<>>
  ELSE [j \in 1 .. Width(d) |-> <<j, stepSequence[d][c + 1][j]>>]
         \o RowsFrom(d, NextCounter(c, direction), direction, n - 1)

\* the step writes of a move, its cleanup writes left out
StepWrites(d, m) ==
  SubSeq(moves[d][m].log, 1, ArrayFromLength(moves[d][m].stepCount) * Width(d))

\* a driver whose two moves, N then M steps in one direction, both
\* succeeded, the second called after the first had resolved
TwoSequentialMoves(d) ==
  /\ Len(moves[d]) = 2
  /\ moves[d][1].pc = "resolved" /\ moves[d][2].pc = "resolved"
  /\ moves[d][1].stepCount >= 0 /\ moves[d][2].stepCount >= 0
  /\ moves[d][1].direction = moves[d][2].direction
  /\ ~moves[d][2].busy

\* C19: two successful sequential moves of N and M steps in one direction
\* end at the index, and write the step rows in the order, of one move of
\* N + M steps; the second starts at the index where the first stopped.
C19_MovesContinueSequence ==
  \A d \in Drivers : TwoSequentialMoves(d) =>
    LET first == moves[d][1]
        second == moves[d][2]
        dir == first.direction
    IN /\ second.start = IndexAfter(first.start, dir, first.stepCount)
       /\ motorStepCounter[d] =
            IndexAfter(first.start, dir, first.stepCount + second.stepCount)
       /\ StepWrites(d, 1) \o StepWrites(d, 2) =
            RowsFrom(d, first.start, dir, first.stepCount + second.stepCount)
       /\ second.stepCount >= 1 =>
            SubSeq(second.log, 1, Width(d)) =
              [j \in 1 .. Width(d) |-> <<j, stepSequence[d][second.start + 1][j]>>]

C19_Witness == \E d \in Drivers :
  /\ TwoSequentialMoves(d)
  /\ moves[d][1].stepCount >= 1 /\ moves[d][2].stepCount >= 1
  /\ motorStepCounter[d] # moves[d][1].start

\* the number of setValue calls that move m of driver d issues in this
\* step: the writes it logs, and the one that threw
Issued(d, m) ==
  LET new == m > Len(moves[d])
      after == moves'[d][m]
      oldLen == IF new THEN 0 ELSE Len(moves[d][m].log)
      threw == /\ after.err = "LineWriteError"
               /\ (new \/ moves[d][m].err = None)
  IN IF new \/ after # moves[d][m]
     THEN (Len(after.log) - oldLen) + (IF threw THEN 1 ELSE 0)
     ELSE 0

\* every setValue call of the step is on a line the driver still holds
OnClaimedLines(d, m) ==
  \A j \in 1 .. Issued(d, m) :
    /\ gpioLines[d][j] = "requested"
    /\ claimedBy[pins[d][j]] = d

\* C20 as stated: a move that is between two advances writes only to
\* lines still claimed by its driver, delete() or not.
C20_NoWriteAfterRelease ==
  [][\A d \in Drivers : \A m \in 1 .. Len(moves[d]) : OnClaimedLines(d, m)]_vars

\* C20: as long as delete() has not been called on the driver, every line
\* write of its moves targets a line still claimed by the driver.
C20_WritesClaimedUntilDelete ==
  [][\A d \in Drivers : \A m \in 1 .. Len(moves'[d]) :
       releaseCalls[d] = 0 => OnClaimedLines(d, m)]_vars

C20_Witness == \E d \in Drivers : \E m \in MoveIds(d) :
  /\ releaseCalls[d] = 0
  /\ moves[d][m].done >= 1
  /\ Len(moves[d][m].log) >= 2 * Width(d)

\* a driver on the default sequence whose two moves overlapped (the
\* second was called while the first was waiting) and have both resolved
TwoOverlappingMoves(d) ==
  /\ stepSequence[d] = DefaultStepSequence
  /\ Len(moves[d]) = 2
  /\ moves[d][1].pc = "resolved" /\ moves[d][2].pc = "resolved"
  /\ moves[d][1].stepCount >= 0 /\ moves[d][2].stepCount >= 0
  /\ moves[d][2].busy

\* the advances a move requested, counted forward
Signed(rec) == IF rec.direction THEN 0 - rec.stepCount ELSE rec.stepCount

====
